---- MODULE Spec2Model ----
(***************************************************************************)
(* Model of the AI purchase tracker Slack app.                             *)
(*                                                                         *)
(* The repository holds two versions of the application:                   *)
(*   - src/unnamed/part_000: POST /slack/commands acknowledges at once and *)
(*     reports the outcome with chat.postMessage (specification Spec);     *)
(*   - src/app.js: POST /slack/commands answers only after the Google      *)
(*     Sheets call has returned (specification SpecSync).                  *)
(* Both define verifySlackRequest and parseInput; these pure functions are *)
(* exercised on bounded inputs by SpecVerify and SpecParse.                *)
(*                                                                         *)
(* Strings are sequences of one-character strings; a character outside     *)
(* ASCII is written {U+xxxx}, and a Korean message text is written as its  *)
(* translation in braces.  Amounts are counted in hundredths, so that      *)
(* parseFloat("20.50") is 2050.                                            *)
(***************************************************************************)
EXTENDS Integers, Sequences, FiniteSets, TLC

VARIABLES
  pc,        \* per request: where its handler is suspended
  req,       \* per request: the inbound request (headers and body)
  loc,       \* per request: the handler's local variables
  trace,     \* per request: the observable events of its handler, in order
  ledger,    \* the rows of Sheet1!A:E, in append order
  channel,   \* per request: the messages chat.postMessage delivered for it
  pText,     \* SpecParse: the argument of parseInput
  pResult,   \* SpecParse: the value parseInput returned
  vIn,       \* SpecVerify: the request and clock given to verifySlackRequest
  vOut       \* SpecVerify: what verifySlackRequest did

vars == <<pc, req, loc, trace, ledger, channel, pText, pResult, vIn, vOut>>

(***************************************************************************)
(* Characters and strings                                                  *)
(***************************************************************************)

SpaceChars == {" ", "\t", "\n"}
DigitChars == {"0", "1", "2", "3", "4", "5", "6", "7", "8", "9"}

\* \s of the regular expressions and the characters String.prototype.trim drops
IsSpace(c) == c \in SpaceChars

\* \d
IsDigit(c) == c \in DigitChars

DigitVal(c) ==
  CASE c = "0" -> 0 [] c = "1" -> 1 [] c = "2" -> 2 [] c = "3" -> 3
    [] c = "4" -> 4 [] c = "5" -> 5 [] c = "6" -> 6 [] c = "7" -> 7
    [] c = "8" -> 8 [] c = "9" -> 9

HasDigit(s) == \E k \in 1..Len(s) : IsDigit(s[k])
HasSpace(s) == \E k \in 1..Len(s) : IsSpace(s[k])

\* The index of the first character at or after i that does not satisfy the
\* class (Len(s) + 1 when there is none): the end of a greedy run.
RECURSIVE RunEnd(_, _, _)
RunEnd(s, i, class) ==
  IF i <= Len(s) /\ s[i] \in class THEN RunEnd(s, i + 1, class) ELSE i

RECURSIVE TrimLeft(_)
TrimLeft(s) == IF s # <<>> /\ IsSpace(Head(s)) THEN TrimLeft(Tail(s)) ELSE s

RECURSIVE TrimRight(_)
TrimRight(s) ==
  IF s # <<>> /\ IsSpace(s[Len(s)]) THEN TrimRight(SubSeq(s, 1, Len(s) - 1)) ELSE s

\* String.prototype.trim
Trim(s) == TrimRight(TrimLeft(s))

\* String.prototype.replace(/[...]/g, ''): drop every character of the class
RECURSIVE Strip(_, _)
Strip(s, class) ==
  IF s = <<>> THEN <<>>
  ELSE IF Head(s) \in class THEN Strip(Tail(s), class)
       ELSE <<Head(s)>> \o Strip(Tail(s), class)

(***************************************************************************)
(* parseFloat and isNaN                                                    *)
(***************************************************************************)

NaN == [nan |-> TRUE, val |-> 0]
Num(v) == [nan |-> FALSE, val |-> v]

RECURSIVE DigitsVal(_, _)
DigitsVal(s, acc) ==
  IF s = <<>> THEN acc ELSE DigitsVal(Tail(s), 10 * acc + DigitVal(Head(s)))

\* The first two fraction digits as hundredths (the patterns admit exactly two).
Hundredths(f) ==
  IF Len(f) = 0 THEN 0
  ELSE IF Len(f) = 1 THEN 10 * DigitVal(f[1])
       ELSE 10 * DigitVal(f[1]) + DigitVal(f[2])

\* parseFloat: the longest prefix that is a decimal literal, after leading
\* white space; NaN when that prefix holds no digit.
parseFloat(str) ==
  LET s  == TrimLeft(str)
      ie == RunEnd(s, 1, DigitChars)
      ip == SubSeq(s, 1, ie - 1)
      fe == IF ie <= Len(s) /\ s[ie] = "." THEN RunEnd(s, ie + 1, DigitChars) ELSE ie
      fp == IF fe > ie THEN SubSeq(s, ie + 1, fe - 1) ELSE <<>>
  IN IF ip = <<>> /\ fp = <<>> THEN NaN
     ELSE Num(100 * DigitsVal(ip, 0) + Hundredths(fp))

isNaN(n) == n.nan

(***************************************************************************)
(* parseInput                                                              *)
(***************************************************************************)

\* (?:{U+B2EC}{U+B7EC}|{U+C6D0}|USD|KRW)
CurrencyWords == {<<"{U+B2EC}", "{U+B7EC}">>, <<"{U+C6D0}">>, <<"U", "S", "D">>, <<"K", "R", "W">>}

NoMatch == [matched |-> FALSE, g1 |-> <<>>, g2 |-> <<>>]

\* The rest of pattern 1 after group 1 of length i:
\*   \s+(\$?[\d,]+(?:\.\d{2})?)\s*(?:{U+B2EC}{U+B7EC}|{U+C6D0}|USD|KRW)?$
\* Every quantifier here is greedy and none can give a character back to what
\* follows it, so the rest matches in at most one way.
Rest1(t, i) ==
  LET a == RunEnd(t, i + 1, SpaceChars)
      b == IF a <= Len(t) /\ t[a] = "$" THEN a + 1 ELSE a
      c == RunEnd(t, b, DigitChars \cup {","})
      d == IF c + 2 <= Len(t) /\ t[c] = "." /\ IsDigit(t[c + 1]) /\ IsDigit(t[c + 2])
           THEN c + 3 ELSE c
      e == RunEnd(t, d, SpaceChars)
  IN IF a > i + 1 /\ c > b /\ (e = Len(t) + 1 \/ SubSeq(t, e, Len(t)) \in CurrencyWords)
     THEN [matched |-> TRUE, g1 |-> SubSeq(t, 1, i), g2 |-> SubSeq(t, a, d - 1)]
     ELSE NoMatch

\* The rest of pattern 2 after group 1 of length i:  \s+(\d+(?:\.\d{2})?)\s*$
Rest2(t, i) ==
  LET a == RunEnd(t, i + 1, SpaceChars)
      c == RunEnd(t, a, DigitChars)
      d == IF c + 2 <= Len(t) /\ t[c] = "." /\ IsDigit(t[c + 1]) /\ IsDigit(t[c + 2])
           THEN c + 3 ELSE c
      e == RunEnd(t, d, SpaceChars)
  IN IF a > i + 1 /\ c > a /\ e = Len(t) + 1
     THEN [matched |-> TRUE, g1 |-> SubSeq(t, 1, i), g2 |-> SubSeq(t, a, d - 1)]
     ELSE NoMatch

Rest(p, t, i) == IF p = 1 THEN Rest1(t, i) ELSE Rest2(t, i)

\* Group 1 is ^(.+?): the engine tries its lengths from 1 upwards ("." does not
\* match a line terminator), and the first length whose rest matches wins.
DotRun(t) == RunEnd(t, 1, {t[k] : k \in 1..Len(t)} \ {"\n"}) - 1

\* String.prototype.match(pattern) on t
Match(p, t) ==
  LET ok == {i \in 1..DotRun(t) : Rest(p, t, i).matched}
  IN IF ok = {} THEN NoMatch
     ELSE Rest(p, t, CHOOSE i \in ok : \A j \in ok : i <= j)

Null == [isNull |-> TRUE, programName |-> <<>>, amount |-> 0]

\* The body of the for loop for one pattern: the parsed pair, or Null when
\* the loop goes on to the next pattern.
TryPatternNoNaNCheck(p, text) ==
  LET m == Match(p, Trim(text))
  IN IF m.matched
     THEN [isNull |-> FALSE, programName |-> Trim(m.g1),
           amount |-> parseFloat(Trim(Strip(m.g2, {"$", ","}))).val]
     ELSE Null

TryPattern(p, text) ==
  LET m == Match(p, Trim(text))
  IN IF m.matched
     THEN LET programName == Trim(m.g1)
              amount == Trim(Strip(m.g2, {"$", ","}))
          IN IF ~isNaN(parseFloat(amount))
             THEN [isNull |-> FALSE, programName |-> programName,
                   amount |-> parseFloat(amount).val]
             ELSE Null
     ELSE Null

parseInput(text) ==
  IF ~TryPattern(1, text).isNull THEN TryPattern(1, text)
  ELSE IF ~TryPattern(2, text).isNull THEN TryPattern(2, text)
  ELSE Null

(***************************************************************************)
(* SpecParse: parseInput applied to every text of a bounded set            *)
(***************************************************************************)

MaxTextLen == 4

ParseAlphabet == {"a", " ", "5", ",", "$", ".", "{U+C6D0}"}

RECURSIVE StringsUpTo(_, _)
StringsUpTo(alphabet, n) ==
  IF n = 0 THEN {<<>>}
  ELSE LET shorter == StringsUpTo(alphabet, n - 1)
       IN shorter \cup {Append(s, c) : s \in {x \in shorter : Len(x) = n - 1}, c \in alphabet}

\* Endings that the short strings cannot spell: two decimals, a currency word.
ParseSuffixes ==
  {<<>>, <<".", "5", "0">>, <<".", "5", "0", "{U+C6D0}">>, <<" ", "U", "S", "D">>,
   <<"5", " ", "K", "R", "W">>}

ParseTexts == {s \o e : s \in StringsUpTo(ParseAlphabet, MaxTextLen), e \in ParseSuffixes}

Idle == [isNull |-> TRUE, programName |-> <<>>, amount |-> -1]

ParseInit ==
  /\ pText \in ParseTexts
  /\ pResult = Idle
  /\ pc = <<>> /\ req = <<>> /\ loc = <<>> /\ trace = <<>>
  /\ ledger = <<>> /\ channel = <<>>
  /\ vIn = <<>> /\ vOut = "none"

ParseCall ==
  /\ pResult = Idle
  /\ pResult' = parseInput(pText)
  /\ UNCHANGED <<pc, req, loc, trace, ledger, channel, pText, vIn, vOut>>

ParseNext == ParseCall

SpecParse == ParseInit /\ [][ParseNext]_vars

(***************************************************************************)
(* C10: what parseInput returns                                            *)
(***************************************************************************)

\* The number a stripped amount token denotes, in hundredths: its digits
\* before the point, and the two digits after it.
TokenValue(tok) ==
  LET digits == Strip(tok, {"$", ","})
      dot == {k \in 1..Len(digits) : digits[k] = "."}
  IN IF dot = {} THEN 100 * DigitsVal(digits, 0)
     ELSE LET k == CHOOSE x \in dot : TRUE
          IN 100 * DigitsVal(SubSeq(digits, 1, k - 1), 0)
               + 10 * DigitVal(digits[k + 1]) + DigitVal(digits[k + 2])

\* t splits at i, a, d into item, white space, amount token and an ending
\* that is white space and at most one currency word.
SplitsAt(t, i, a, d) ==
  /\ 1 <= i /\ i + 1 < a /\ a < d /\ d <= Len(t) + 1
  /\ \A k \in (i + 1)..(a - 1) : IsSpace(t[k])
  /\ \A k \in a..(d - 1) : t[k] \in DigitChars \cup {"$", ",", "."}
  /\ Cardinality({k \in a..(d - 1) : t[k] = "."}) <= 1
  /\ HasDigit(SubSeq(t, a, d - 1))
  /\ LET tail == TrimLeft(SubSeq(t, d, Len(t)))
     IN tail = <<>> \/ tail \in CurrencyWords

\* The last token of t once a final currency word is set aside.
EndsWith(t, w) == Len(w) <= Len(t) /\ SubSeq(t, Len(t) - Len(w) + 1, Len(t)) = w
WithoutCurrency(t) ==
  IF \E w \in CurrencyWords : EndsWith(t, w)
  THEN LET w == CHOOSE x \in CurrencyWords : EndsWith(t, x)
       IN TrimRight(SubSeq(t, 1, Len(t) - Len(w)))
  ELSE t
LastToken(t) ==
  LET sp == {k \in 1..Len(t) : IsSpace(t[k])}
  IN IF sp = {} THEN t
     ELSE SubSeq(t, (CHOOSE k \in sp : \A j \in sp : j <= k) + 1, Len(t))

\* C10: parseInput returns no match, or the pair (item, amount) whose item is
\* the non-empty trimmed text before the trailing amount token and whose amount
\* is the non-negative number of that token once "$" and "," are stripped; a
\* text of a single token, a text with no digit, and a text whose trailing
\* amount token holds no digit yield no match.
C10_ParseInputResult ==
  pResult # Idle =>
    LET t == Trim(pText)
    IN /\ ~pResult.isNull =>
            /\ pResult.programName # <<>>
            /\ pResult.amount >= 0
            /\ \E i \in 1..Len(t), a \in 1..Len(t), d \in 1..(Len(t) + 1) :
                 /\ SplitsAt(t, i, a, d)
                 /\ pResult.programName = Trim(SubSeq(t, 1, i))
                 /\ pResult.amount = TokenValue(SubSeq(t, a, d - 1))
       /\ ~HasSpace(t) => pResult.isNull
       /\ ~HasDigit(t) => pResult.isNull
       /\ ~HasDigit(LastToken(WithoutCurrency(t))) => pResult.isNull

\* A text with "$" and "," in its amount token has been parsed into a pair.
C10_Witness ==
  /\ pResult # Idle /\ ~pResult.isNull
  /\ \E k \in 1..Len(pText) : pText[k] = "$"
  /\ \E k \in 1..Len(pText) : pText[k] = ","
  /\ pResult.amount = 500
  /\ pResult.programName = <<"a">>

(***************************************************************************)
(* verifySlackRequest                                                      *)
(***************************************************************************)

\* Header values.  A timestamp header is absent, the empty string, the decimal
\* text of an integer, or some other text; a signature header is absent (the
\* empty tuple) or a "v0=" signature.
NoHeader == [kind |-> "absent", n |-> 0]
EmptyStr == [kind |-> "empty", n |-> 0]
IntStr(n) == [kind |-> "int", n |-> n]
OtherStr == [kind |-> "text", n |-> 0]

NoSignature == <<>>

\* 'v0=' + HMAC-SHA256(key, 'v0:' + timestamp + ':' + body) in hex: the digest
\* is taken to be collision free, so it stands for the triple it was made from.
Sign(key, timestamp, body) == <<"v0=", key, timestamp, body>>

SLACK_SIGNING_SECRET == "secret"

\* !header
Falsy(h) == h.kind \in {"absent", "empty"}

\* ToNumber(string), as the subtraction time - timestamp applies it
ToNumber(h) ==
  IF h.kind = "int" THEN Num(h.n) ELSE IF h.kind = "empty" THEN Num(0) ELSE NaN

MaxSkew == 300

\* Math.abs(time - timestamp) > 300; any comparison with NaN is false
TooOld(time, timestamp) ==
  LET t == ToNumber(timestamp)
      diff == time - t.val
  IN ~isNaN(t) /\ (IF diff < 0 THEN -diff ELSE diff) > MaxSkew

verifySlackRequest(signature, timestamp, body, time) ==
  IF signature = NoSignature \/ Falsy(timestamp) THEN "400 Invalid request"
  ELSE IF TooOld(time, timestamp) THEN "400 Request too old"
  ELSE IF signature # Sign(SLACK_SIGNING_SECRET, timestamp, body) THEN "400 Invalid signature"
  ELSE "next"

(***************************************************************************)
(* SpecVerify: verifySlackRequest applied to requests of a bounded set     *)
(***************************************************************************)

NowBase == 1000

VerifyClock == {NowBase, NowBase + 1}

VerifyTimestamps ==
  {NoHeader, EmptyStr, OtherStr}
    \cup {IntStr(NowBase + d) : d \in {-MaxSkew - 1, -MaxSkew, 0, MaxSkew, MaxSkew + 1, MaxSkew + 2}}

VerifyBodies == {"text=a+5", "text=a+6"}

VerifySignatures ==
  {NoSignature}
    \cup {Sign(k, t, b) : k \in {SLACK_SIGNING_SECRET, "other"},
                          t \in VerifyTimestamps \ {NoHeader, EmptyStr}, b \in VerifyBodies}

VerifyInit ==
  /\ vIn \in [signature : VerifySignatures, timestamp : VerifyTimestamps,
              body : VerifyBodies, time : VerifyClock]
  /\ vOut = "none"
  /\ pc = <<>> /\ req = <<>> /\ loc = <<>> /\ trace = <<>>
  /\ ledger = <<>> /\ channel = <<>>
  /\ pText = <<>> /\ pResult = Idle

VerifyCall ==
  /\ vOut = "none"
  /\ vOut' = verifySlackRequest(vIn.signature, vIn.timestamp, vIn.body, vIn.time)
  /\ UNCHANGED <<pc, req, loc, trace, ledger, channel, pText, pResult, vIn>>

VerifyNext == VerifyCall

SpecVerify == VerifyInit /\ [][VerifyNext]_vars

\* C9: verifySlackRequest calls next only if both headers are present, the
\* timestamp is an integer at most 300 seconds from the current time and the
\* signature equals the expected one; a request whose timestamp is missing or
\* not within 300 seconds of now is rejected with a client error whatever its
\* signature.
C9_VerifierAccepts ==
  LET fresh == /\ vIn.timestamp.kind = "int"
               /\ vIn.timestamp.n - vIn.time <= MaxSkew
               /\ vIn.time - vIn.timestamp.n <= MaxSkew
  IN /\ vOut = "next" =>
          /\ vIn.signature # NoSignature
          /\ fresh
          /\ vIn.signature = Sign(SLACK_SIGNING_SECRET, vIn.timestamp, vIn.body)
     /\ (vOut # "none" /\ ~fresh) => vOut \in {"400 Invalid request", "400 Request too old",
                                               "400 Invalid signature"}

(***************************************************************************)
(* Requests, the external services and the messages                        *)
(***************************************************************************)

NumRequests == 2

Requests == 1..NumRequests

\* req.body.text: a string, or (express.urlencoded({extended: true}) parses
\* text[]=a so) an array, which has no trim method.
StringText(chars) == [kind |-> "string", s |-> chars]
ArrayText == [kind |-> "array", s |-> <<>>]

AiCommand == "/ai{U+AD6C}{U+B9E4}"

Texts ==
  {StringText(<<>>), StringText(<<"a", " ", "b">>), StringText(<<"a", " ", "5">>), ArrayText}

Bodies ==
  [command : {AiCommand, "/other"}, text : Texts, user_id : {"U1"}, channel_id : {"C1"}]

\* The requests Slack sends: every body, signed now with the shared secret.
Signed(b) ==
  [signature |-> Sign(SLACK_SIGNING_SECRET, IntStr(NowBase), b),
   timestamp |-> IntStr(NowBase), body |-> b]

SlackInbound == {Signed(b) : b \in Bodies}

\* The requests any client can send: those of Slack, and a purchase with no
\* signature header, with a timestamp older than the window, and with a
\* signature made with another key.
Purchases(bodies) == {b \in bodies : b.command = AiCommand /\ HasDigit(b.text.s)}

Forged(bodies) ==
  {[signature |-> NoSignature, timestamp |-> IntStr(NowBase), body |-> b] : b \in Purchases(bodies)}
    \cup {[signature |-> Sign(SLACK_SIGNING_SECRET, IntStr(NowBase - MaxSkew - 1), b),
           timestamp |-> IntStr(NowBase - MaxSkew - 1), body |-> b] : b \in Purchases(bodies)}
    \cup {[signature |-> Sign("other", IntStr(NowBase), b),
           timestamp |-> IntStr(NowBase), body |-> b] : b \in Purchases(bodies)}

Inbound == SlackInbound \cup Forged(Bodies)

NoUser == [real_name |-> "", display_name |-> "", name |-> ""]

\* What slack.users.info may do: reject, or resolve with a user whose
\* real_name and display_name may be empty.
Users ==
  {[real_name |-> "Real", display_name |-> "Display", name |-> "name"],
   [real_name |-> "", display_name |-> "Display", name |-> "name"],
   [real_name |-> "", display_name |-> "", name |-> "name"]}

LookupOutcomes ==
  {[threw |-> TRUE, user |-> NoUser]}
    \cup {[threw |-> FALSE, user |-> u] : u \in Users}

\* new Date().toLocaleDateString('ko-KR')
CurrentDate == "2026. 11. 4."

\* The texts handed to chat.postMessage
UsageHint(command) == <<"{usage}: ", command, " [{program name}] [{amount}]">>
FormatError(command) == <<"{the input format is not right}. {usage}: ", command, " [{program name}] [{amount}]">>
Confirmation(userName, parsed, date) ==
  <<"{check mark} {the AI program purchase has been registered}!", userName, parsed.programName, parsed.amount, date>>
AppendFailedNotice == <<"{cross mark} {an error occurred while updating the spreadsheet}. {please contact the administrator}.">>
RetryNotice == <<"{cross mark} {an error occurred while processing}. {please try again}.">>

\* Events of a handler, in the order they happen
Respond(status) == [op |-> "res.send", arg |-> <<status>>]
CallParse == [op |-> "parseInput", arg |-> <<>>]
CallUsersInfo == [op |-> "users.info", arg |-> <<>>]
CallAppend == [op |-> "values.append", arg |-> <<>>]
CallPost(text) == [op |-> "chat.postMessage", arg |-> text]
Unhandled == [op |-> "unhandled rejection", arg |-> <<>>]

\* A handler's locals (parsed, userName, success) and, for the properties,
\* what the two services did: lookup is how users.info settled, appended is
\* whether values.append resolved.
NoLocals ==
  [parsed |-> Null, userName |-> "", success |-> FALSE,
   lookup |-> [threw |-> FALSE, user |-> NoUser], appended |-> FALSE]

OrchInit ==
  /\ pc = [r \in Requests |-> "idle"]
  /\ req = [r \in Requests |-> [signature |-> NoSignature, timestamp |-> NoHeader,
                                 body |-> [command |-> "", text |-> StringText(<<>>),
                                           user_id |-> "", channel_id |-> ""]]]
  /\ loc = [r \in Requests |-> NoLocals]
  /\ trace = [r \in Requests |-> <<>>]
  /\ ledger = <<>>
  /\ channel = [r \in Requests |-> <<>>]
  /\ pText = <<>> /\ pResult = Idle
  /\ vIn = <<>> /\ vOut = "none"

Emit(r, events) == trace' = [trace EXCEPT ![r] = @ \o events]

(***************************************************************************)
(* getSlackUserInfo and addToSpreadsheet                                   *)
(***************************************************************************)

Or(a, b) == IF a # "" THEN a ELSE b

getSlackUserInfoNameFirst(outcome) ==
  IF outcome.threw THEN "Unknown User"
  ELSE Or(outcome.user.name, Or(outcome.user.display_name, outcome.user.real_name))

\* try { result = await slack.users.info(...); return real_name || display_name
\* || name } catch { return 'Unknown User' }
getSlackUserInfo(outcome) ==
  IF outcome.threw THEN "Unknown User"
  ELSE Or(outcome.user.real_name, Or(outcome.user.display_name, outcome.user.name))

\* The row addToSpreadsheet builds; "by" is not in the sheet: it records which
\* request's call wrote the row.
Row(r, date, purchaserName, programName, amount) ==
  [values |-> <<date, purchaserName, programName, amount, "">>, by |-> r]

SheetAppendDedup(sheet, row) ==
  IF \E k \in 1..Len(sheet) : sheet[k].values = row.values THEN sheet ELSE Append(sheet, row)

\* sheets.spreadsheets.values.append on Sheet1!A:E when the call succeeds
SheetAppend(sheet, row) == Append(sheet, row)

\* addToSpreadsheet returns true when the append resolved and false, from its
\* catch, when it rejected.
addToSpreadsheet(resolved) == resolved

(***************************************************************************)
(* POST /slack/commands of src/unnamed/part_000                            *)
(***************************************************************************)

\* The follow-up message after addToSpreadsheet has returned
OutcomeMessageAlwaysConfirms(success, l, date) == Confirmation(l.userName, l.parsed, date)

OutcomeMessage(success, l, date) ==
  IF success THEN Confirmation(l.userName, l.parsed, date) ELSE AppendFailedNotice

\* The handler from its start to its first await.  The route is registered as
\* app.post('/slack/commands', async (req, res) => ...): verifySlackRequest is
\* not among its middleware, so every request that arrives reaches the handler.
Handle(r, in) ==
  /\ pc[r] = "idle"
  /\ LET body == in.body
         text == body.text
         ack == <<Respond(200)>>
     IN   /\ req' = [req EXCEPT ![r] = in]
          /\ IF body.command # AiCommand
             THEN /\ Emit(r, ack)
                  /\ pc' = [pc EXCEPT ![r] = "done"]
                  /\ UNCHANGED loc
             ELSE IF text.kind = "array"
             THEN \* text.trim is not a function: the TypeError lands in the catch
                  /\ Emit(r, ack \o <<CallPost(RetryNotice)>>)
                  /\ pc' = [pc EXCEPT ![r] = "catchPost"]
                  /\ UNCHANGED loc
             ELSE IF text.s = <<>> \/ Trim(text.s) = <<>>
             THEN /\ Emit(r, ack \o <<CallPost(UsageHint(body.command))>>)
                  /\ pc' = [pc EXCEPT ![r] = "post"]
                  /\ UNCHANGED loc
             ELSE LET parsed == parseInput(text.s)
                  IN IF parsed.isNull
                     THEN /\ Emit(r, ack \o <<CallParse, CallPost(FormatError(body.command))>>)
                          /\ pc' = [pc EXCEPT ![r] = "post"]
                          /\ UNCHANGED loc
                     ELSE /\ Emit(r, ack \o <<CallParse, CallUsersInfo>>)
                          /\ pc' = [pc EXCEPT ![r] = "lookup"]
                          /\ loc' = [loc EXCEPT ![r].parsed = parsed]
  /\ UNCHANGED <<ledger, channel, pText, pResult, vIn, vOut>>

\* A slash command sent by Slack arrives.
SlashCommand(r) == \E in \in SlackInbound : Handle(r, in)

\* A request sent by anyone arrives.
AnyRequest(r) == \E in \in Inbound : Handle(r, in)

\* slack.users.info settles: getSlackUserInfo returns, the date is taken and
\* addToSpreadsheet issues the append.
UsersInfoReturns(r) ==
  /\ pc[r] = "lookup"
  /\ \E outcome \in LookupOutcomes :
       loc' = [loc EXCEPT ![r].userName = getSlackUserInfo(outcome),
                          ![r].lookup = outcome]
  /\ Emit(r, <<CallAppend>>)
  /\ pc' = [pc EXCEPT ![r] = "append"]
  /\ UNCHANGED <<req, ledger, channel, pText, pResult, vIn, vOut>>

\* sheets.spreadsheets.values.append settles: addToSpreadsheet returns and the
\* handler posts the message for its result.
AppendReturns(r) ==
  /\ pc[r] = "append"
  /\ \E resolved \in BOOLEAN :
       LET success == addToSpreadsheet(resolved)
           l == loc[r]
       IN /\ ledger' = IF resolved
                       THEN SheetAppend(ledger, Row(r, CurrentDate, l.userName,
                                                    l.parsed.programName, l.parsed.amount))
                       ELSE ledger
          /\ loc' = [loc EXCEPT ![r].success = success, ![r].appended = resolved]
          /\ Emit(r, <<CallPost(OutcomeMessage(success, l, CurrentDate))>>)
  /\ pc' = [pc EXCEPT ![r] = "post"]
  /\ UNCHANGED <<req, channel, pText, pResult, vIn, vOut>>

PendingPost(r) == trace[r][Len(trace[r])].arg

Deliver(r, text) ==
  channel' = [channel EXCEPT ![r] = Append(@, [channel |-> req[r].body.channel_id, text |-> text])]

\* A chat.postMessage awaited inside the try settles: the handler returns, or
\* the rejection lands in the catch, which posts the retry notice.
PostMessageReturns(r) ==
  /\ pc[r] = "post"
  /\ \/ /\ Deliver(r, PendingPost(r))
        /\ pc' = [pc EXCEPT ![r] = "done"]
        /\ UNCHANGED trace
     \/ /\ Emit(r, <<CallPost(RetryNotice)>>)
        /\ pc' = [pc EXCEPT ![r] = "catchPost"]
        /\ UNCHANGED channel
  /\ UNCHANGED <<req, loc, ledger, pText, pResult, vIn, vOut>>

\* The chat.postMessage awaited inside the catch settles: the handler
\* returns, or its promise rejects with nothing to handle the rejection.
CatchPostReturns(r) ==
  /\ pc[r] = "catchPost"
  /\ \/ /\ Deliver(r, PendingPost(r))
        /\ UNCHANGED trace
     \/ /\ Emit(r, <<Unhandled>>)
        /\ UNCHANGED channel
  /\ pc' = [pc EXCEPT ![r] = "done"]
  /\ UNCHANGED <<req, loc, ledger, pText, pResult, vIn, vOut>>

Next ==
  \E r \in Requests :
    \/ SlashCommand(r)
    \/ UsersInfoReturns(r)
    \/ AppendReturns(r)
    \/ PostMessageReturns(r)
    \/ CatchPostReturns(r)

Spec == OrchInit /\ [][Next]_vars

\* The same handler with the route open to every client.
OpenNext ==
  \E r \in Requests :
    \/ AnyRequest(r)
    \/ UsersInfoReturns(r)
    \/ AppendReturns(r)
    \/ PostMessageReturns(r)
    \/ CatchPostReturns(r)

SpecOpen == OrchInit /\ [][OpenNext]_vars

(***************************************************************************)
(* POST /slack/commands of src/app.js                                      *)
(***************************************************************************)

\* String.prototype.split(' ')
RECURSIVE Split(_, _)
Split(s, cur) ==
  IF s = <<>> THEN <<cur>>
  ELSE IF Head(s) = " " THEN <<cur>> \o Split(Tail(s), <<>>)
       ELSE Split(Tail(s), Append(cur, Head(s)))

\* Array.prototype.join(' ')
RECURSIVE Join(_)
Join(parts) ==
  IF parts = <<>> THEN <<>>
  ELSE IF Len(parts) = 1 THEN parts[1]
       ELSE parts[1] \o <<" ">> \o Join(Tail(parts))

\* replace(/[^0-9.]/g, '')
RECURSIVE KeepDigitsAndDots(_)
KeepDigitsAndDots(s) ==
  IF s = <<>> THEN <<>>
  ELSE IF Head(s) \in DigitChars \cup {"."} THEN <<Head(s)>> \o KeepDigitsAndDots(Tail(s))
       ELSE KeepDigitsAndDots(Tail(s))

SyncUsage == <<"{usage}: /ai{U+AD6C}{U+B9E4} [{program name}] [{amount}]">>
SyncFormatError == <<"{the format is not right}.">>
SyncRegistered(programName, amount) == <<"{purchase registered}!", programName, amount>>
SyncSheetFailed(programName, amount) ==
  <<"{parsing succeeded but the Google sheet call failed}", programName, amount>>

RespondWith(status, text) == [op |-> "res.send", arg |-> <<status, text>>]
CallSplit == [op |-> "text.split", arg |-> <<>>]

TestUser == "{test user}"

SyncTexts == Texts \cup {StringText(<<"a">>), StringText(<<" ", "5">>)}

SyncBodies == [command : {AiCommand}, text : SyncTexts, user_id : {"U1"}, channel_id : {"C1"}]

SyncInbound == {Signed(b) : b \in SyncBodies} \cup Forged(SyncBodies)

\* The handler from its start to its await of the append, or to its end.
SyncCommand(r) ==
  /\ pc[r] = "idle"
  /\ \E in \in SyncInbound :
       LET text == in.body.text
           parts == Split(text.s, <<>>)
       IN /\ req' = [req EXCEPT ![r] = in]
          /\ IF text.kind = "array"
             THEN \* text.trim is not a function, thrown outside the try
                  /\ Emit(r, <<Unhandled>>)
                  /\ pc' = [pc EXCEPT ![r] = "done"]
                  /\ UNCHANGED loc
             ELSE IF text.s = <<>> \/ Trim(text.s) = <<>>
             THEN /\ Emit(r, <<RespondWith(200, SyncUsage)>>)
                  /\ pc' = [pc EXCEPT ![r] = "done"]
                  /\ UNCHANGED loc
             ELSE IF Len(parts) < 2
             THEN /\ Emit(r, <<CallSplit, RespondWith(200, SyncFormatError)>>)
                  /\ pc' = [pc EXCEPT ![r] = "done"]
                  /\ UNCHANGED loc
             ELSE /\ Emit(r, <<CallSplit, CallAppend>>)
                  /\ pc' = [pc EXCEPT ![r] = "syncAppend"]
                  /\ loc' = [loc EXCEPT ![r].parsed =
                               [isNull |-> FALSE,
                                programName |-> Join(SubSeq(parts, 1, Len(parts) - 1)),
                                amount |-> KeepDigitsAndDots(parts[Len(parts)])]]
  /\ UNCHANGED <<ledger, channel, pText, pResult, vIn, vOut>>

\* sheets.spreadsheets.values.append settles and the handler answers.
SyncAppendReturns(r) ==
  /\ pc[r] = "syncAppend"
  /\ LET p == loc[r].parsed
     IN \/ /\ ledger' = SheetAppend(ledger, Row(r, CurrentDate, TestUser, p.programName, p.amount))
           /\ loc' = [loc EXCEPT ![r].appended = TRUE]
           /\ Emit(r, <<RespondWith(200, SyncRegistered(p.programName, p.amount))>>)
        \/ /\ Emit(r, <<RespondWith(200, SyncSheetFailed(p.programName, p.amount))>>)
           /\ UNCHANGED <<ledger, loc>>
  /\ pc' = [pc EXCEPT ![r] = "done"]
  /\ UNCHANGED <<req, channel, pText, pResult, vIn, vOut>>

SyncNext ==
  \E r \in Requests :
    \/ SyncCommand(r)
    \/ SyncAppendReturns(r)

SpecSync == OrchInit /\ [][SyncNext]_vars

(***************************************************************************)
(* Properties of the command handlers                                      *)
(***************************************************************************)

Ops(r) == {trace[r][k].op : k \in 1..Len(trace[r])}
Count(r, op) == Cardinality({k \in 1..Len(trace[r]) : trace[r][k].op = op})
RowsBy(r) == {k \in 1..Len(ledger) : ledger[k].by = r}
MessagesBy(r) == {channel[r][k] : k \in 1..Len(channel[r])}
Posted(r, text) == \E k \in 1..Len(trace[r]) : trace[r][k] = CallPost(text)
Accepted(r) ==
  verifySlackRequest(req[r].signature, req[r].timestamp, req[r].body, NowBase) = "next"
Work == {"parseInput", "text.split", "users.info", "values.append", "chat.postMessage"}

\* C1: no parsing, user lookup, ledger append or follow-up message happens for
\* a request unless verifySlackRequest accepted it; a request it does not
\* accept gets a client-error response, appends no row and posts no message.
C1_NothingBeforeVerification ==
  \A r \in Requests :
    (pc[r] # "idle" /\ ~Accepted(r)) =>
      /\ Ops(r) \cap Work = {}
      /\ RowsBy(r) = {} /\ MessagesBy(r) = {}
      /\ \E k \in 1..Len(trace[r]) : trace[r][k] = Respond(400)

\* C2: in every handler of POST /slack/commands a row is appended only if the
\* text was not empty and parseInput gave a non-empty item and a numeric
\* amount; with an empty text or no match the command ends with no user lookup
\* and no append attempt.
C2_AppendOnlyAfterParse ==
  \A r \in Requests :
    LET text == req[r].body.text
        parses == /\ text.kind = "string" /\ Trim(text.s) # <<>>
                  /\ ~parseInput(text.s).isNull
                  /\ parseInput(text.s).programName # <<>>
    IN (pc[r] # "idle" /\ ~parses) =>
         /\ RowsBy(r) = {}
         /\ Ops(r) \cap {"users.info", "values.append"} = {}

\* C3: the HTTP acknowledgment is sent before any other work of the command:
\* parsing, user lookup, the append call and every follow-up message come
\* after it, and it never waits on an outbound call.
C3_AckFirst ==
  \A r \in Requests : \A k \in 1..Len(trace[r]) :
    trace[r][k].op \in Work => \E j \in 1..(k - 1) : trace[r][j].op = "res.send"

\* C4: every acknowledged command, whatever its command name, its text and the
\* outcomes of the external calls, ends with a follow-up message sent to the
\* originating channel, and no error escapes the handler unhandled.
C4_AlwaysReports ==
  \A r \in Requests :
    pc[r] = "done" =>
      /\ \E m \in MessagesBy(r) : m.channel = req[r].body.channel_id
      /\ "unhandled rejection" \notin Ops(r)

\* C5: when the ledger append fails, addToSpreadsheet returns false and the
\* handler posts the administrator-contact message and never the confirmation;
\* the confirmation is posted only when the append returned success; and the
\* confirmation, append-failure and format-error messages are three distinct
\* messages.
C5_MessageMatchesOutcome ==
  \A r \in Requests :
    LET l == loc[r]
        confirmation == Confirmation(l.userName, l.parsed, CurrentDate)
    IN /\ (pc[r] \in {"post", "catchPost", "done"} /\ "values.append" \in Ops(r)) =>
            /\ l.success = l.appended
            /\ ~l.appended => (Posted(r, AppendFailedNotice) /\ ~Posted(r, confirmation))
            /\ l.appended => (Posted(r, confirmation) /\ ~Posted(r, AppendFailedNotice))
       /\ (\E k \in 1..Len(trace[r]) :
              /\ trace[r][k].op = "chat.postMessage"
              /\ trace[r][k].arg[1] = confirmation[1]) =>
            (l.success /\ l.appended /\ RowsBy(r) # {})
       /\ \A m \in MessagesBy(r) :
            m.text[1] = confirmation[1] => (l.success /\ RowsBy(r) # {})
       /\ confirmation # AppendFailedNotice
       /\ confirmation # FormatError(req[r].body.command)
       /\ AppendFailedNotice # FormatError(req[r].body.command)

\* A command whose append failed has delivered the administrator-contact message.
C5_Witness ==
  \E r \in Requests :
    /\ pc[r] = "done" /\ "values.append" \in Ops(r) /\ ~loc[r].appended
    /\ \E m \in MessagesBy(r) : m.text = AppendFailedNotice

\* C6: a failed user lookup does not abort the command: the append is still
\* attempted and the row's purchaser is "Unknown User"; when the lookup
\* succeeds the purchaser is the real name, else the display name, else the
\* name.
C6_LookupFailureDegrades ==
  \A r \in Requests :
    LET l == loc[r]
        u == l.lookup.user
    IN (pc[r] \in {"append", "post", "catchPost", "done"} /\ "users.info" \in Ops(r)) =>
         /\ "values.append" \in Ops(r)
         /\ l.lookup.threw => l.userName = "Unknown User"
         /\ ~l.lookup.threw =>
              l.userName = (IF u.real_name # "" THEN u.real_name
                            ELSE IF u.display_name # "" THEN u.display_name
                            ELSE u.name)
         /\ \A k \in RowsBy(r) : ledger[k].values[2] = l.userName
         /\ l.appended => RowsBy(r) # {}

\* A row was appended for a command whose user lookup had failed, and another
\* for a user with no real name.
C6_Witness ==
  /\ \E r \in Requests :
       /\ loc[r].lookup.threw
       /\ \E k \in RowsBy(r) : ledger[k].values[2] = "Unknown User"
  /\ \E r \in Requests :
       /\ ~loc[r].lookup.threw
       /\ \E k \in RowsBy(r) : ledger[k].values[2] = "Display"

\* C7: for each command there is at most one user-lookup attempt, at most one
\* ledger-append attempt and at most one follow-up message-post attempt.
C7_SingleAttempts ==
  \A r \in Requests :
    /\ Count(r, "users.info") <= 1
    /\ Count(r, "values.append") <= 1
    /\ Count(r, "chat.postMessage") <= 1

\* C8: the ledger is append-only and not deduplicated: a step changes it only
\* by adding, after the rows it holds, the one row of a command whose append
\* succeeded, built from that command's parsed item and amount and its
\* resolved purchaser; a command whose append succeeded has exactly one row.
C8_AppendOnlyLedger ==
  [][/\ ledger' # ledger =>
          \E r \in Requests :
            /\ pc[r] = "append" /\ loc'[r].success
            /\ RowsBy(r) = {}
            /\ ledger' = Append(ledger,
                 [values |-> <<CurrentDate, loc[r].userName,
                               parseInput(req[r].body.text.s).programName,
                               parseInput(req[r].body.text.s).amount, "">>,
                  by |-> r])
     /\ \A r \in Requests :
          (pc[r] = "append" /\ pc'[r] = "post" /\ loc'[r].success) =>
            Len(ledger') = Len(ledger) + 1
    ]_vars

\* Two commands with the same text and purchaser have each added a row.
C8_Witness ==
  /\ Len(ledger) = 2
  /\ ledger[1].values = ledger[2].values
  /\ ledger[1].by # ledger[2].by
  /\ req[ledger[1].by].body = req[ledger[2].by].body

====
